---- MODULE Spec2Model ----
(***************************************************************************)
(* A model of hw_bot.py: the field classes (Name, Phone, Birthday), Record, *)
(* AddressBook, the command handlers wrapped by input_error, the pickle     *)
(* persistence and the main read loop.                                      *)
(*                                                                          *)
(* A Python str is a sequence of one-character tokens.  The token "U+0663"  *)
(* stands for the single character ARABIC-INDIC DIGIT THREE and "U+00B2"    *)
(* for SUPERSCRIPT TWO.  A message (the text of an exception or of a        *)
(* printed or returned line) is a tuple <<id, part, ...>>: the id names the *)
(* f-string of the source and the parts are the values it interpolates.     *)
(***************************************************************************)
EXTENDS Integers, Sequences, FiniteSets, TLC

VARIABLES
    book,   \* AddressBook.data: the entries in insertion order
    call,   \* the most recent call: <<what was called, its arguments>>
    res,    \* how that call ended: the value returned or the exception, the lines printed
    pc,     \* where the process is: "lib" (calls made on the classes), or a place of main()
    store   \* the file addressbook.pkl

vars == <<book, call, res, pc, store>>

\* The largest number of Phone objects the records of the book hold together.
MaxPhones == 2

----------------------------------------------------------------------------
(* Strings *)

Rep(c, n) == [i \in 1..n |-> c]

DigitChars == <<"0", "1", "2", "3", "4", "5", "6", "7", "8", "9">>

AsciiDigits == {DigitChars[i] : i \in 1..10}

\* Characters outside 0-9 for which str.isdigit() is true as well.
UnicodeDigits == {"U+0663", "U+00B2"}

Whitespace == {" ", "\t"}

\* str.isdigit(): the string is not empty and every character is a digit character.
str_isdigit(s) == Len(s) > 0 /\ \A i \in 1..Len(s) : s[i] \in AsciiDigits \cup UnicodeDigits

DigitVal(c) == CHOOSE n \in 0..9 : DigitChars[n + 1] = c

RECURSIVE int_of(_)
\* int() of a string of the digits 0-9.
int_of(s) == IF s = <<>> THEN 0 ELSE 10 * int_of(SubSeq(s, 1, Len(s) - 1)) + DigitVal(s[Len(s)])

RECURSIVE zfill(_, _)
\* The decimal digits of n, padded with zeros to at least w characters.
zfill(n, w) ==
    IF n < 10 /\ w <= 1 THEN <<DigitChars[n + 1]>>
    ELSE Append(zfill(n \div 10, w - 1), DigitChars[(n % 10) + 1])

RECURSIVE split_on(_, _, _, _, _)
\* The pieces of s from position i on, cut at the characters of seps; a run of
\* separators gives empty pieces unless dropEmpty.
split_on(s, seps, dropEmpty, i, cur) ==
    IF i > Len(s)
    THEN IF dropEmpty /\ cur = <<>> THEN <<>> ELSE <<cur>>
    ELSE IF s[i] \in seps
         THEN (IF dropEmpty /\ cur = <<>> THEN <<>> ELSE <<cur>>)
              \o split_on(s, seps, dropEmpty, i + 1, <<>>)
         ELSE split_on(s, seps, dropEmpty, i + 1, Append(cur, s[i]))

\* parse_input: str.split() with no argument.
parse_input(user_input) == split_on(user_input, Whitespace, TRUE, 1, <<>>)

RECURSIVE join(_, _)
\* sep.join(parts)
join(parts, sep) ==
    IF parts = <<>> THEN <<>>
    ELSE IF Len(parts) = 1 THEN parts[1]
    ELSE parts[1] \o sep \o join(Tail(parts), sep)

----------------------------------------------------------------------------
(* Outcomes of a call *)

None == <<"None">>

Returned(v) == [kind |-> "return", val |-> v, printed |-> <<>>]

Printed(line) == [kind |-> "return", val |-> None, printed |-> <<line>>]

Raised(exc, msg) == [kind |-> exc, val |-> msg, printed |-> <<>>]

IsRaise(r) == r.kind # "return"

----------------------------------------------------------------------------
(* Dates: datetime.date *)

Date(y, m, d) == [y |-> y, m |-> m, d |-> d]

\* Record.birthday when no birthday is set (no date has year 0).
NoBirthday == [y |-> 0, m |-> 0, d |-> 0]

is_leap(y) == y % 4 = 0 /\ (y % 100 # 0 \/ y % 400 = 0)

DAYS_IN_MONTH == <<31, 28, 31, 30, 31, 30, 31, 31, 30, 31, 30, 31>>

DAYS_BEFORE_MONTH == <<0, 31, 59, 90, 120, 151, 181, 212, 243, 273, 304, 334>>

days_in_month(y, m) == IF m = 2 /\ is_leap(y) THEN 29 ELSE DAYS_IN_MONTH[m]

days_before_year(y) ==
    (y - 1) * 365 + ((y - 1) \div 4) - ((y - 1) \div 100) + ((y - 1) \div 400)

days_before_month(y, m) == DAYS_BEFORE_MONTH[m] + (IF m > 2 /\ is_leap(y) THEN 1 ELSE 0)

\* date.toordinal()
toordinal(dt) == days_before_year(dt.y) + days_before_month(dt.y, dt.m) + dt.d

\* The check date(year, month, day) makes of its arguments.
date_ok(y, m, d) == y \in 1..9999 /\ m \in 1..12 /\ d \in 1..days_in_month(y, m)

\* datetime.strptime(value, "%d.%m.%Y").date(): day and month of one or two
\* digits 0-9, a year of four, the date a date of the calendar.
strptime_ok(value) ==
    LET parts == split_on(value, {"."}, FALSE, 1, <<>>) IN
    /\ Len(parts) = 3
    /\ \A i \in 1..3 : \A j \in 1..Len(parts[i]) : parts[i][j] \in AsciiDigits
    /\ Len(parts[1]) \in {1, 2}
    /\ Len(parts[2]) \in {1, 2}
    /\ Len(parts[3]) = 4
    /\ date_ok(int_of(parts[3]), int_of(parts[2]), int_of(parts[1]))

strptime(value) ==
    LET parts == split_on(value, {"."}, FALSE, 1, <<>>) IN
    Date(int_of(parts[3]), int_of(parts[2]), int_of(parts[1]))

\* Birthday.__str__: strftime("%d.%m.%Y")
strftime(dt) == zfill(dt.d, 2) \o <<".">> \o zfill(dt.m, 2) \o <<".">> \o zfill(dt.y, 4)

----------------------------------------------------------------------------
(* The field classes *)

\* Name.__init__
Name_init(value) ==
    IF Len(value) < 3 THEN Raised("ValueError", <<"name_not_added", value>>)
    ELSE Returned(value)

\* Phone.__init__
Phone_init(value) ==
    IF ~(str_isdigit(value) /\ Len(value) = 10)
    THEN Raised("ValueError", <<"phone_not_added", value>>)
    ELSE Returned(value)

\* Birthday.__init__
Birthday_init(value) ==
    IF strptime_ok(value) THEN Returned(strptime(value))
    ELSE Raised("ValueError", <<"invalid_date_format">>)

----------------------------------------------------------------------------
(* Record.  A method gives the record as it leaves it and how the call ended. *)

NoRecord == [name |-> <<>>, phones |-> <<>>, birthday |-> NoBirthday]

\* Record.__init__
Record_init(name) ==
    LET n == Name_init(name) IN
    IF IsRaise(n) THEN [rec |-> NoRecord, out |-> n]
    ELSE [rec |-> [name |-> n.val, phones |-> <<>>, birthday |-> NoBirthday],
          out |-> Returned(None)]

\* The position of the first phone whose value is s, 0 when there is none.
first_match(phones, s) ==
    IF \E i \in 1..Len(phones) : phones[i] = s
    THEN CHOOSE i \in 1..Len(phones) :
            phones[i] = s /\ \A j \in 1..(i - 1) : phones[j] # s
    ELSE 0

remove_at(seq, i) == SubSeq(seq, 1, i - 1) \o SubSeq(seq, i + 1, Len(seq))

\* Record.add_phone
Record_add_phone(rec, contact_number) ==
    LET p == Phone_init(contact_number) IN
    IF IsRaise(p) THEN [rec |-> rec, out |-> p]
    ELSE [rec |-> [rec EXCEPT !.phones = Append(@, p.val)], out |-> Returned(None)]

\* Record.edit_phone
Record_edit_phone(rec, old_number, new_number) ==
    LET i == first_match(rec.phones, old_number) IN
    IF i # 0
    THEN [rec |-> [rec EXCEPT !.phones[i] = new_number], out |-> Returned(None)]
    ELSE [rec |-> rec, out |-> Printed(<<"phone_not_found", old_number>>)]

\* Record.find_phone
Record_find_phone(rec, contact_number) ==
    LET i == first_match(rec.phones, contact_number) IN
    IF i # 0 THEN Returned(<<"str", rec.phones[i]>>) ELSE Returned(None)

\* remove_phone as it would be if it dropped every phone equal to the number.
Record_remove_phone_every_copy(rec, contact_number) ==
    LET keep(p) == p # contact_number IN
    IF first_match(rec.phones, contact_number) # 0
    THEN [rec |-> [rec EXCEPT !.phones = SelectSeq(@, keep)],
          out |-> Printed(<<"phone_removed", contact_number>>)]
    ELSE [rec |-> rec, out |-> Printed(<<"phone_not_found", contact_number>>)]

\* Record.remove_phone
Record_remove_phone(rec, contact_number) ==
    LET i == first_match(rec.phones, contact_number) IN
    IF i # 0
    THEN [rec |-> [rec EXCEPT !.phones = remove_at(@, i)],
          out |-> Printed(<<"phone_removed", contact_number>>)]
    ELSE [rec |-> rec, out |-> Printed(<<"phone_not_found", contact_number>>)]

\* add_birthday as it would be without the test for a birthday already set.
Record_add_birthday_overwriting(rec, birthday_str) ==
    LET b == Birthday_init(birthday_str) IN
    IF IsRaise(b) THEN [rec |-> rec, out |-> b]
    ELSE [rec |-> [rec EXCEPT !.birthday = b.val], out |-> Returned(None)]

\* Record.add_birthday
Record_add_birthday(rec, birthday_str) ==
    IF rec.birthday = NoBirthday
    THEN LET b == Birthday_init(birthday_str) IN
         IF IsRaise(b) THEN [rec |-> rec, out |-> b]
         ELSE [rec |-> [rec EXCEPT !.birthday = b.val], out |-> Returned(None)]
    ELSE [rec |-> rec,
          out |-> Raised("Exception",
                         <<"birthday_already_set", rec.name, strftime(rec.birthday)>>)]

\* Record.show_birthday
Record_show_birthday(rec) ==
    IF rec.birthday # NoBirthday THEN Returned(<<"str", strftime(rec.birthday)>>)
    ELSE Returned(<<"no_birthday_set", rec.name>>)

\* Record.__str__
Record_str(rec) ==
    <<"contact", rec.name, join(rec.phones, <<";", " ">>),
      IF rec.birthday # NoBirthday THEN strftime(rec.birthday) ELSE <<>>>>

----------------------------------------------------------------------------
(* AddressBook: a dict, its entries [key, rec] in insertion order. *)

\* The position of the entry under key, 0 when the key is absent.
index_of(b, key) ==
    IF \E i \in 1..Len(b) : b[i].key = key
    THEN CHOOSE i \in 1..Len(b) : b[i].key = key
    ELSE 0

\* __setitem__ as it would be if the entries were a list appended to.
setitem_appending(b, key, rec) == Append(b, [key |-> key, rec |-> rec])

\* UserDict.__setitem__: a present key keeps its place, a new one goes last.
setitem(b, key, rec) ==
    IF index_of(b, key) # 0 THEN [b EXCEPT ![index_of(b, key)].rec = rec]
    ELSE Append(b, [key |-> key, rec |-> rec])

\* AddressBook.add_record
AddressBook_add_record(b, record_to_add) == setitem(b, record_to_add.name, record_to_add)

\* AddressBook.find: the place of the record found, 0 for None.
AddressBook_find(b, contact_name) == index_of(b, contact_name)

\* The record book.find(key) gives when the key is present.
RecordAt(b, key) == b[AddressBook_find(b, key)].rec

\* AddressBook.delete
AddressBook_delete(b, contact_name) ==
    IF index_of(b, contact_name) # 0
    THEN [book |-> remove_at(b, index_of(b, contact_name)),
          out |-> Printed(<<"contact_deleted", contact_name>>)]
    ELSE [book |-> b, out |-> Printed(<<"contact_not_found", contact_name>>)]

\* date.replace(year=...) succeeds.
replace_year_ok(dt, year) == date_ok(year, dt.m, dt.d)

\* (birthday_this_year - today).days
days_until_birthday(dt, today) == toordinal(Date(today.y, dt.m, dt.d)) - toordinal(today)

\* The test as it would be with the window closed at its far end.
in_window_closed(delta, days) == 0 <= delta /\ delta <= days

\* The test that admits a record to the list.
in_window(delta, days) == 0 <= delta /\ delta < days

RECURSIVE upcoming_loop(_, _, _, _, _)
\* The loop of get_upcoming_birthdays from entry i on, acc the list so far.
upcoming_loop(b, i, today, days, acc) ==
    IF i > Len(b) THEN Returned(<<"records", acc>>)
    ELSE LET record == b[i].rec IN
         IF record.birthday # NoBirthday
         THEN IF ~replace_year_ok(record.birthday, today.y)
              THEN Raised("ValueError", <<"day_out_of_range">>)
              ELSE upcoming_loop(b, i + 1, today, days,
                       IF in_window(days_until_birthday(record.birthday, today), days)
                       THEN Append(acc, record) ELSE acc)
         ELSE upcoming_loop(b, i + 1, today, days, acc)

\* AddressBook.get_upcoming_birthdays, today the date datetime.today() gives.
AddressBook_get_upcoming_birthdays(b, today, days) == upcoming_loop(b, 1, today, days, <<>>)

\* AddressBook.__str__
AddressBook_str(b) ==
    IF b # <<>> THEN <<"lines", [i \in 1..Len(b) |-> Record_str(b[i].rec)]>>
    ELSE <<"no_records">>

----------------------------------------------------------------------------
(* The command handlers.  A handler gives the book as it leaves it and how  *)
(* the call ended; the body is the function under the decorator.            *)

\* The window get_upcoming_birthdays takes when called without days.
DefaultDays == 7

\* The ValueError of "name, phone, *_ = args" when args is too short.
unpack_error(expected, args) ==
    Raised("ValueError", <<"not_enough_values_to_unpack", expected, Len(args)>>)

\* input_error: an exception of the body becomes the returned str(e).
input_error(r) ==
    IF IsRaise(r.out) THEN [book |-> r.book, out |-> Returned(r.out.val)] ELSE r

add_contact_body(args, b) ==
    IF Len(args) < 2 THEN [book |-> b, out |-> unpack_error(2, args)]
    ELSE
    LET name == args[1]
        phone == args[2]
        found == AddressBook_find(b, name)
        made == Record_init(name)
    IN  IF found = 0 /\ IsRaise(made.out) THEN [book |-> b, out |-> made.out]
        ELSE
        LET b1 == IF found = 0 THEN AddressBook_add_record(b, made.rec) ELSE b
            message == IF found = 0 THEN <<"contact_added">> ELSE <<"contact_updated">>
            i == index_of(b1, name)
            added == Record_add_phone(b1[i].rec, phone)
        IN  IF phone # <<>>
            THEN IF IsRaise(added.out) THEN [book |-> b1, out |-> added.out]
                 ELSE [book |-> [b1 EXCEPT ![i].rec = added.rec], out |-> Returned(message)]
            ELSE [book |-> b1, out |-> Returned(message)]

\* add_contact
add_contact(args, b) == input_error(add_contact_body(args, b))

add_birthday_body(args, b) ==
    IF Len(args) < 2 THEN [book |-> b, out |-> unpack_error(2, args)]
    ELSE
    LET name == args[1]
        i == AddressBook_find(b, name)
        r == Record_add_birthday(b[i].rec, args[2])
    IN  IF i = 0 THEN [book |-> b, out |-> Returned(<<"contact_not_found", name>>)]
        ELSE IF IsRaise(r.out) THEN [book |-> b, out |-> r.out]
        ELSE [book |-> [b EXCEPT ![i].rec = r.rec], out |-> Returned(<<"birthday_added", name>>)]

\* add_birthday
add_birthday(args, b) == input_error(add_birthday_body(args, b))

show_birthday_body(args, b) ==
    IF Len(args) < 1 THEN [book |-> b, out |-> unpack_error(1, args)]
    ELSE
    LET i == AddressBook_find(b, args[1]) IN
    IF i = 0 THEN [book |-> b, out |-> Returned(<<"contact_not_found", args[1]>>)]
    ELSE [book |-> b, out |-> Record_show_birthday(b[i].rec)]

\* show_birthday
show_birthday(args, b) == input_error(show_birthday_body(args, b))

birthdays_body(b, today) ==
    LET upcoming == AddressBook_get_upcoming_birthdays(b, today, DefaultDays) IN
    IF IsRaise(upcoming) THEN [book |-> b, out |-> upcoming]
    ELSE IF upcoming.val[2] # <<>>
    THEN [book |-> b,
          out |-> Returned(<<"lines", [i \in 1..Len(upcoming.val[2]) |->
                                          Record_str(upcoming.val[2][i])]>>)]
    ELSE [book |-> b, out |-> Returned(<<"no_upcoming_birthdays">>)]

\* birthdays
birthdays(b, today) == input_error(birthdays_body(b, today))

edit_phone_body(args, b) ==
    IF Len(args) < 3 THEN [book |-> b, out |-> unpack_error(3, args)]
    ELSE
    LET name == args[1]
        i == AddressBook_find(b, name)
        r == Record_edit_phone(b[i].rec, args[2], args[3])
    IN  IF i = 0 THEN [book |-> b, out |-> Returned(<<"contact_not_found", name>>)]
        ELSE [book |-> [b EXCEPT ![i].rec = r.rec],
              out |-> [kind |-> "return", val |-> <<"phone_number_updated", name>>,
                       printed |-> r.out.printed]]

\* edit_phone
edit_phone(args, b) == input_error(edit_phone_body(args, b))

show_phone_body(args, b) ==
    IF Len(args) < 1 THEN [book |-> b, out |-> unpack_error(1, args)]
    ELSE
    LET i == AddressBook_find(b, args[1]) IN
    IF i = 0 THEN [book |-> b, out |-> Returned(<<"contact_not_found", args[1]>>)]
    ELSE [book |-> b,
          out |-> Returned(<<"phones_for", args[1], join(b[i].rec.phones, <<";", " ">>)>>)]

\* show_phone
show_phone(args, b) == input_error(show_phone_body(args, b))

----------------------------------------------------------------------------
(* Persistence.  The pickled book is a list of tuples; the file holds it.   *)

NoFile == [exists |-> FALSE, data |-> <<>>]

pickle_record(e) ==
    <<e.key, e.rec.name, e.rec.phones,
      IF e.rec.birthday = NoBirthday THEN <<>>
      ELSE <<e.rec.birthday.y, e.rec.birthday.m, e.rec.birthday.d>>>>

unpickle_record(t) ==
    [key |-> t[1],
     rec |-> [name |-> t[2], phones |-> t[3],
              birthday |-> IF t[4] = <<>> THEN NoBirthday ELSE Date(t[4][1], t[4][2], t[4][3])]]

\* pickle.dump(book, f)
pickle_dump(b) == [i \in 1..Len(b) |-> pickle_record(b[i])]

\* pickle.load(f)
pickle_load(data) == [i \in 1..Len(data) |-> unpickle_record(data[i])]

\* save_data as it would be if it wrote a new AddressBook() in place of the book.
save_data_of_new_book(b) == [exists |-> TRUE, data |-> pickle_dump(<<>>)]

\* save_data: the file is written whole.
save_data(b) == [exists |-> TRUE, data |-> pickle_dump(b)]

\* load_data: the book of the file, an empty book when there is no file.
load_data(file) == IF file.exists THEN pickle_load(file.data) ELSE <<>>

--------------------------------------------------------------------------------------------------------------------------------------------------
(* The inputs the calls are made with *)

Bob == <<"B", "o", "b">>

Ann == <<"A", "n", "n">>

Al == <<"A", "l">>

Names == {Bob, Ann, Al}

\* "1111111111"
PhoneAscii == Rep("1", 10)

\* ten ARABIC-INDIC DIGIT THREE
PhoneArabic == Rep("U+0663", 10)

\* "111111111"
PhoneShort == Rep("1", 9)

\* "+111111111"
PhoneSigned == <<"+">> \o Rep("1", 9)

Phones == {PhoneAscii, PhoneArabic, PhoneShort, PhoneSigned}

\* "<dd>.06.1990"
June(dd) == dd \o <<".", "0", "6", ".", "1", "9", "9", "0">>

\* "29.02.<yyyy>"
Feb29(yyyy) == <<"2", "9", ".", "0", "2", ".">> \o yyyy

BirthdayStrings ==
    {June(<<"0", "1">>), June(<<"0", "5">>), June(<<"1", "0">>), June(<<"5">>),
     Feb29(<<"2", "0", "2", "0">>), Feb29(<<"2", "0", "2", "1">>)}

\* The dates datetime.today() gives.
Todays == {Date(2024, 6, 1), Date(2024, 6, 4), Date(2024, 2, 27), Date(2023, 6, 1)}

\* The windows get_upcoming_birthdays is called with.
Windows == {DefaultDays, 4}

RECURSIVE total_phones(_)
\* The number of Phone objects the records of b hold together.
total_phones(b) == IF b = <<>> THEN 0 ELSE Len(b[1].rec.phones) + total_phones(Tail(b))

AddArgs(phones) ==
    {<<n>> : n \in Names} \cup {<<n, p>> : n \in Names, p \in phones \cup {<<>>}}

ChangeArgs(phones) ==
    {<<n, PhoneAscii>> : n \in Names} \cup {<<n, PhoneAscii, p>> : n \in Names, p \in phones}

BirthdayArgs ==
    {<<n>> : n \in Names} \cup {<<n, s>> : n \in Names, s \in BirthdayStrings}

NameArgs == {<<>>} \cup {<<n>> : n \in Names}

----------------------------------------------------------------------------
(* Calls made on the classes and on the handlers, in any order *)

NoCall == <<"none">>

Init ==
    /\ book = <<>>
    /\ call = NoCall
    /\ res = Returned(None)
    /\ pc = "lib"
    /\ store = NoFile

\* The call c, which leaves the book b and ends as out.
Call(c, b, out) ==
    /\ pc = "lib"
    /\ total_phones(b) <= MaxPhones
    /\ book' = b
    /\ call' = c
    /\ res' = out
    /\ UNCHANGED <<pc, store>>

\* The call c of a method of the record under key, which ends as r.
CallRecord(c, key, r) ==
    /\ AddressBook_find(book, key) # 0
    /\ Call(c, [book EXCEPT ![index_of(book, key)].rec = r.rec], r.out)

\* The call c of a handler, which ends as r.
CallHandler(c, r) == Call(c, r.book, r.out)

\* book.add_record(Record(name))
AddRecord(name) ==
    LET made == Record_init(name) IN
    /\ IF IsRaise(made.out) THEN Call(<<"add_record", name>>, book, made.out)
       ELSE Call(<<"add_record", name>>, AddressBook_add_record(book, made.rec), Returned(None))

\* book.delete(name)
Delete(name) ==
    /\ CallHandler(<<"delete", name>>, AddressBook_delete(book, name))

\* book.find(key).add_phone(s)
RecAddPhone(key, s) ==
    /\ CallRecord(<<"Record.add_phone", key, s>>, key, Record_add_phone(RecordAt(book, key), s))

\* book.find(key).edit_phone(old, new)
RecEditPhone(key, old, new) ==
    /\ CallRecord(<<"Record.edit_phone", key, old, new>>, key,
                  Record_edit_phone(RecordAt(book, key), old, new))

\* book.find(key).find_phone(s)
RecFindPhone(key, s) ==
    /\ CallRecord(<<"Record.find_phone", key, s>>, key,
                  [rec |-> RecordAt(book, key), out |-> Record_find_phone(RecordAt(book, key), s)])

\* book.find(key).remove_phone(s)
RecRemovePhone(key, s) ==
    /\ CallRecord(<<"Record.remove_phone", key, s>>, key,
                  Record_remove_phone(RecordAt(book, key), s))

\* book.find(key).add_birthday(s)
RecAddBirthday(key, s) ==
    /\ CallRecord(<<"Record.add_birthday", key, s>>, key,
                  Record_add_birthday(RecordAt(book, key), s))

\* book.find(key).show_birthday()
RecShowBirthday(key) ==
    /\ CallRecord(<<"Record.show_birthday", key>>, key,
                  [rec |-> RecordAt(book, key), out |-> Record_show_birthday(RecordAt(book, key))])

\* book.get_upcoming_birthdays(days), run on the date today
GetUpcoming(today, days) ==
    /\ Call(<<"get_upcoming_birthdays", today, days>>, book,
            AddressBook_get_upcoming_birthdays(book, today, days))

\* add_contact(args, book)
CallAddContact(args) ==
    /\ CallHandler(<<"add_contact", args>>, add_contact(args, book))

\* edit_phone(args, book)
CallEditPhone(args) ==
    /\ CallHandler(<<"edit_phone", args>>, edit_phone(args, book))

\* show_phone(args, book)
CallShowPhone(args) ==
    /\ CallHandler(<<"show_phone", args>>, show_phone(args, book))

\* add_birthday(args, book)
CallAddBirthday(args) ==
    /\ CallHandler(<<"add_birthday", args>>, add_birthday(args, book))

\* show_birthday(args, book)
CallShowBirthday(args) ==
    /\ CallHandler(<<"show_birthday", args>>, show_birthday(args, book))

\* birthdays(book), run on the date today
CallBirthdays(today) ==
    /\ CallHandler(<<"birthdays", today>>, birthdays(book, today))

\* Calls that keep contacts and their phones.
Next ==
    \/ \E name \in Names : AddRecord(name)
    \/ \E name \in Names : Delete(name)
    \/ \E key \in Names, s \in Phones : RecAddPhone(key, s)
    \/ \E key \in Names, old \in Phones, new \in Phones : RecEditPhone(key, old, new)
    \/ \E key \in Names, s \in Phones : RecFindPhone(key, s)
    \/ \E key \in Names, s \in Phones : RecRemovePhone(key, s)
    \/ \E args \in AddArgs(Phones) : CallAddContact(args)
    \/ \E args \in ChangeArgs(Phones) : CallEditPhone(args)
    \/ \E args \in NameArgs : CallShowPhone(args)

Spec == Init /\ [][Next]_vars

\* Calls that keep contacts and their birthdays, with one phone number in use.
NextBirthdays ==
    \/ \E name \in Names : AddRecord(name)
    \/ \E name \in Names : Delete(name)
    \/ \E key \in Names : RecAddPhone(key, PhoneAscii)
    \/ \E key \in Names : RecEditPhone(key, PhoneAscii, PhoneAscii)
    \/ \E key \in Names : RecFindPhone(key, PhoneAscii)
    \/ \E key \in Names : RecRemovePhone(key, PhoneAscii)
    \/ \E key \in Names, s \in BirthdayStrings : RecAddBirthday(key, s)
    \/ \E key \in Names : RecShowBirthday(key)
    \/ \E today \in Todays, days \in Windows : GetUpcoming(today, days)
    \/ \E args \in AddArgs({PhoneAscii}) : CallAddContact(args)
    \/ \E args \in BirthdayArgs : CallAddBirthday(args)
    \/ \E args \in NameArgs : CallShowBirthday(args)
    \/ \E today \in Todays : CallBirthdays(today)

SpecBirthdays == Init /\ [][NextBirthdays]_vars

------------------------------------------------------------------------------------------------------------------------------------------------------------------------------------------------------------------------
(* main(): the book is loaded, then saved before every line that is read. *)

kw_close == <<"c", "l", "o", "s", "e">>

kw_exit == <<"e", "x", "i", "t">>

kw_hello == <<"h", "e", "l", "l", "o">>

kw_add == <<"a", "d", "d">>

kw_change == <<"c", "h", "a", "n", "g", "e">>

kw_phone == <<"p", "h", "o", "n", "e">>

kw_all == <<"a", "l", "l">>

kw_add_birthday == kw_add \o <<"-", "b", "i", "r", "t", "h", "d", "a", "y">>

kw_show_birthday == <<"s", "h", "o", "w", "-", "b", "i", "r", "t", "h", "d", "a", "y">>

kw_birthdays == <<"b", "i", "r", "t", "h", "d", "a", "y", "s">>

\* The words of the lines typed.
TypedWords ==
    {<<kw_close>>, <<kw_exit>>, <<kw_exit, kw_all>>, <<kw_hello>>, <<kw_all>>, <<kw_birthdays>>,
     <<Bob>>, <<kw_hello, kw_exit>>,
     <<kw_add>>, <<kw_add, Bob>>, <<kw_add, Bob, PhoneAscii>>, <<kw_add, Ann, PhoneAscii>>,
     <<kw_add, Ann, PhoneShort>>, <<kw_add, Al, PhoneAscii>>,
     <<kw_change, Bob>>, <<kw_change, Bob, PhoneAscii, PhoneShort>>,
     <<kw_change, Al, PhoneAscii, PhoneShort>>,
     <<kw_phone>>, <<kw_phone, Bob>>,
     <<kw_show_birthday>>, <<kw_show_birthday, Bob>>,
     <<kw_add_birthday, Bob>>, <<kw_add_birthday, Bob, Feb29(<<"2", "0", "2", "0">>)>>,
     <<kw_add_birthday, Ann, Feb29(<<"2", "0", "2", "1">>)>>}

\* The lines input() gives: the words with one space between, and lines of
\* no word, and a line with blanks around its word.
Lines ==
    {join(ws, <<" ">>) : ws \in TypedWords}
    \cup {<<>>, <<" ", " ">>, <<" ">> \o kw_hello \o <<"\t", " ">>}

\* A line typed and the date of the day it is typed on.
Typed ==
    (Lines \X {Date(2024, 2, 27)}) \cup {<<kw_birthdays, Date(2023, 2, 27)>>}

\* A book an earlier run of the program left in the file.
EarlierBook ==
    <<[key |-> Bob,
       rec |-> [name |-> Bob, phones |-> <<PhoneAscii>>, birthday |-> Date(2020, 2, 29)]]>>

InitMain ==
    /\ book = <<>>
    /\ call = NoCall
    /\ res = Returned(None)
    /\ pc = "start"
    /\ store \in {NoFile, save_data(EarlierBook)}

\* book = load_data(); print("Welcome to the assistant bot!")
Load ==
    /\ pc = "start"
    /\ book' = load_data(store)
    /\ call' = <<"load_data">>
    /\ res' = Printed(<<"welcome">>)
    /\ pc' = "save"
    /\ UNCHANGED store

\* save_data(book), at the top of the loop
Save ==
    /\ pc = "save"
    /\ store' = save_data(book)
    /\ pc' = "input"
    /\ UNCHANGED <<book, call, res>>

\* print(handler(...)): what the handler printed, then what it returned.
print_result(r) ==
    [book |-> r.book,
     out |-> [kind |-> "return", val |-> None, printed |-> Append(r.out.printed, r.out.val)]]

\* The branch of main() the command selects, run on the date today.
dispatch(command, args, b, today) ==
    CASE command = kw_hello -> [book |-> b, out |-> Printed(<<"how_can_i_help">>)]
      [] command = kw_add -> print_result(add_contact(args, b))
      [] command = kw_change -> print_result(edit_phone(args, b))
      [] command = kw_phone -> print_result(show_phone(args, b))
      [] command = kw_all -> [book |-> b, out |-> Printed(AddressBook_str(b))]
      [] command = kw_add_birthday -> print_result(add_birthday(args, b))
      [] command = kw_show_birthday -> print_result(show_birthday(args, b))
      [] command = kw_birthdays -> print_result(birthdays(b, today))
      [] OTHER -> [book |-> b, out |-> Printed(<<"invalid_command">>)]

\* One pass of the loop body after save_data: the line is read, split and run.
\* The ValueError of "command, *args = parse_input(user_input)" is caught nowhere.
Command(user_input, today) ==
    /\ pc = "input"
    /\ call' = <<"input", user_input>>
    /\ UNCHANGED store
    /\ LET words == parse_input(user_input) IN
       IF words = <<>>
       THEN /\ pc' = "crashed"
            /\ res' = unpack_error(1, words)
            /\ book' = book
       ELSE IF words[1] \in {kw_close, kw_exit}
       THEN /\ pc' = "done"
            /\ res' = Printed(<<"good_bye">>)
            /\ book' = book
       ELSE LET r == dispatch(words[1], Tail(words), book, today) IN
            /\ total_phones(r.book) <= MaxPhones
            /\ pc' = "save"
            /\ res' = r.out
            /\ book' = r.book

NextMain ==
    \/ Load
    \/ Save
    \/ \E typed \in Typed : Command(typed[1], typed[2])

SpecMain == InitMain /\ [][NextMain]_vars

------
(* What the claims speak of, said without the operators above *)

HasKey(b, key) == \E i \in 1..Len(b) : b[i].key = key

RecordOf(b, key) == b[CHOOSE i \in 1..Len(b) : b[i].key = key].rec

\* The number of phones of the record equal to s.
Copies(rec, s) == Cardinality({i \in 1..Len(rec.phones) : rec.phones[i] = s})

TenAsciiDigits(s) == Len(s) = 10 /\ \A i \in 1..10 : s[i] \in {"0", "1", "2", "3", "4", "5", "6", "7", "8", "9"}

\* Ten characters, each a digit of some script.
TenDigitCharacters(s) ==
    Len(s) = 10 /\ \A i \in 1..10 : s[i] \in {"0", "1", "2", "3", "4", "5", "6", "7", "8", "9", "U+0663", "U+00B2"}

\* The date a well-formed birthday string of the inputs names, as the reader reads it.
DateNamed(s) ==
    CASE s = June(<<"0", "1">>) -> Date(1990, 6, 1)
      [] s = June(<<"0", "5">>) -> Date(1990, 6, 5)
      [] s = June(<<"5">>) -> Date(1990, 6, 5)
      [] s = June(<<"1", "0">>) -> Date(1990, 6, 10)
      [] s = Feb29(<<"2", "0", "2", "0">>) -> Date(2020, 2, 29)
      [] OTHER -> NoBirthday

\* DD.MM.YYYY of the dates the inputs name.
TextOf(dt) ==
    CASE dt = Date(1990, 6, 1) -> June(<<"0", "1">>)
      [] dt = Date(1990, 6, 5) -> June(<<"0", "5">>)
      [] dt = Date(1990, 6, 10) -> June(<<"1", "0">>)
      [] dt = Date(2020, 2, 29) -> Feb29(<<"2", "0", "2", "0">>)

LeapYear(y) == (y % 4 = 0 /\ y % 100 # 0) \/ y % 400 = 0

MonthLength(y, m) ==
    IF m = 2 THEN (IF LeapYear(y) THEN 29 ELSE 28)
    ELSE IF m \in {4, 6, 9, 11} THEN 30 ELSE 31

RECURSIVE DayOfYear(_, _, _)
\* The number of the day d of month m within the year y.
DayOfYear(y, m, d) == IF m = 1 THEN d ELSE MonthLength(y, m - 1) + DayOfYear(y, m - 1, d)

\* Whole days from today to the birthday's day and month in today's year.
Delta(birthday, today) ==
    DayOfYear(today.y, birthday.m, birthday.d) - DayOfYear(today.y, today.m, today.d)

\* Some record has a 29 February birthday and today's year has no such day.
LeapDayTrouble(b, today) ==
    /\ ~LeapYear(today.y)
    /\ \E i \in 1..Len(b) : b[i].rec.birthday.m = 2 /\ b[i].rec.birthday.d = 29

Due(rec, today, days) ==
    /\ rec.birthday # NoBirthday
    /\ 0 <= Delta(rec.birthday, today)
    /\ Delta(rec.birthday, today) < days

\* The records of b that are due, in the order of b.
DueRecords(b, today, days) ==
    LET keep(e) == Due(e.rec, today, days)
        kept == SelectSeq(b, keep)
    IN  [i \in 1..Len(kept) |-> kept[i].rec]

----------------------------------------------------------------------------
(* The claims about the classes and the handlers *)

\* C1: every phone a record of the book holds is a string of exactly 10 digits,
\* whatever add_phone, edit_phone, remove_phone and the handlers have done; an
\* edit_phone with a new number that is not 10 digits stores nothing.
C1_StoredPhonesTenDigits ==
    \A i \in 1..Len(book) : \A j \in 1..Len(book[i].rec.phones) :
        TenDigitCharacters(book[i].rec.phones[j])

\* C8: Phone(s) succeeds exactly when s is ten characters, each one of 0-9, and
\* raises the validation error otherwise (seen where add_phone constructs it).
C8_PhoneAcceptsExactlyTenAsciiDigits ==
    call[1] = "Record.add_phone" =>
        IF TenAsciiDigits(call[3]) THEN res = Returned(None) ELSE res.kind = "ValueError"

\* C9: when add_contact returns anything but "Contact added." or "Contact
\* updated.", the book is as it was before the call.
C9_FailedAddLeavesBook ==
    [][(call'[1] = "add_contact" /\ res'.val[1] \notin {"contact_added", "contact_updated"})
          => book' = book]_vars

\* C10: each key of the book is the name of the record under it, that name has
\* at least 3 characters, and no two entries hold records of the same name.
C10_KeysAreNames ==
    /\ \A i \in 1..Len(book) : book[i].key = book[i].rec.name /\ Len(book[i].rec.name) >= 3
    /\ \A i, j \in 1..Len(book) : book[i].rec.name = book[j].rec.name => i = j

\* A record was added under a name the book already had, next to another entry.
C10_Witness ==
    /\ call = <<"add_record", Bob>>
    /\ Len(book) = 2
    /\ book[1].key = Bob
    /\ book[2].key = Ann

\* find_phone(s) on the record under key gives the phone when the record holds s
\* and None when it does not.
FindTellsHolding ==
    \A key \in Names, s \in Phones :
        (call' = <<"Record.find_phone", key, s>>)
            => res' = Returned(IF Copies(RecordOf(book', key), s) > 0 THEN <<"str", s>> ELSE None)

\* C4 as stated: after add_phone(s) the record holds s, so find_phone(s) gives a
\* match; after a remove_phone(s) that follows, the record does not hold s, so
\* find_phone(s) gives None; whatever the record held before.
C4_RoundTripWhateverHeld ==
    [][/\ FindTellsHolding
       /\ \A key \in Names, s \in Phones :
            /\ (call' = <<"Record.add_phone", key, s>> /\ res' = Returned(None))
                  => Copies(RecordOf(book', key), s) > 0
            /\ (/\ call = <<"Record.add_phone", key, s>> /\ res = Returned(None)
                /\ call' = <<"Record.remove_phone", key, s>>)
                  => Copies(RecordOf(book', key), s) = 0
      ]_vars

\* C4 amended: after add_phone(s) find_phone(s) gives a match; after a
\* remove_phone(s) that follows, find_phone(s) gives None when the record held no
\* phone equal to s before the add, and still gives a match when it did: one copy
\* is removed.
C4_RoundTripOneCopy ==
    [][/\ FindTellsHolding
       /\ \A key \in Names, s \in Phones :
            /\ (call' = <<"Record.add_phone", key, s>> /\ res' = Returned(None))
                  => Copies(RecordOf(book', key), s) > 0
            /\ (/\ call = <<"Record.add_phone", key, s>> /\ res = Returned(None)
                /\ call' = <<"Record.remove_phone", key, s>>)
                  => /\ Copies(RecordOf(book', key), s) = Copies(RecordOf(book, key), s) - 1
                     /\ res'.printed = <<<<"phone_removed", s>>>>
      ]_vars

\* remove_phone(s) has run on a record that held two copies of s and holds one still.
C4_Witness ==
    /\ call = <<"Record.remove_phone", Bob, PhoneAscii>>
    /\ res.printed = <<<<"phone_removed", PhoneAscii>>>>
    /\ HasKey(book, Bob)
    /\ RecordOf(book, Bob).phones = <<PhoneAscii>>

----------------------------------------------------------------------------
(* The claims about birthdays *)

\* C2: when no record has a 29 February birthday in a year without one,
\* get_upcoming_birthdays(days) returns exactly the records with a birthday whose
\* day and month in today's year is 0 to days - 1 days after today, in the order
\* of the book; on 2024-06-01 with days = 7, a birthday of 01.06.1990 or
\* 05.06.1990 is in the list and one of 10.06.1990 is not.
C2_UpcomingIsTheDueRecords ==
    (call[1] = "get_upcoming_birthdays" /\ ~LeapDayTrouble(book, call[2])) =>
        /\ res = Returned(<<"records", DueRecords(book, call[2], call[3])>>)
        /\ (call[2] = Date(2024, 6, 1) /\ call[3] = 7) =>
              \A i \in 1..Len(book) :
                  LET listed == \E j \in 1..Len(res.val[2]) : res.val[2][j] = book[i].rec IN
                  /\ book[i].rec.birthday \in {Date(1990, 6, 1), Date(1990, 6, 5)} => listed
                  /\ book[i].rec.birthday = Date(1990, 6, 10) => ~listed

\* On 2024-06-01 the book holds Bob (05.06.1990) before Ann (01.06.1990) and the
\* list of the next 7 days is Bob, then Ann.
C2_Witness ==
    /\ call = <<"get_upcoming_birthdays", Date(2024, 6, 1), 7>>
    /\ Len(book) = 2
    /\ book[1].rec.name = Bob /\ book[1].rec.birthday = Date(1990, 6, 5)
    /\ book[2].rec.name = Ann /\ book[2].rec.birthday = Date(1990, 6, 1)
    /\ res.kind = "return"
    /\ res.val = <<"records", <<book[1].rec, book[2].rec>>>>

\* C3, for a record that stays in the book (add_record puts another record under
\* its key, delete none): a birthday once set stays as it is whatever is called;
\* add_birthday on a record without a birthday, given a well-formed date, sets
\* that date; add_birthday on a record with a birthday, whatever it is given,
\* raises the already-set error that names the record and shows the birthday it
\* has, and the handler returns that text.
C3_BirthdaySetOnce ==
    [][\A key \in Names :
         HasKey(book, key) =>
           LET was == RecordOf(book, key).birthday
               already == <<"birthday_already_set", key, TextOf(was)>>
           IN  /\ (was # NoBirthday /\ ~(call'[1] \in {"add_record", "delete"} /\ call'[2] = key))
                     => HasKey(book', key) /\ RecordOf(book', key).birthday = was
               /\ (call'[1] = "Record.add_birthday" /\ call'[2] = key) =>
                     IF was # NoBirthday THEN res' = Raised("Exception", already)
                     ELSE DateNamed(call'[3]) # NoBirthday =>
                            /\ RecordOf(book', key).birthday = DateNamed(call'[3])
                            /\ res' = Returned(None)
               /\ (call'[1] = "add_birthday" /\ Len(call'[2]) = 2 /\ call'[2][1] = key) =>
                     IF was # NoBirthday THEN res' = Returned(already)
                     ELSE DateNamed(call'[2][2]) # NoBirthday =>
                            /\ RecordOf(book', key).birthday = DateNamed(call'[2][2])
                            /\ res'.val = <<"birthday_added", key>>
      ]_vars

\* A second add_birthday, with another well-formed date, was refused on a record
\* that keeps its first birthday.
C3_Witness ==
    /\ call = <<"Record.add_birthday", Bob, June(<<"1", "0">>)>>
    /\ res = Raised("Exception", <<"birthday_already_set", Bob, June(<<"0", "5">>)>>)
    /\ HasKey(book, Bob)
    /\ RecordOf(book, Bob).birthday = Date(1990, 6, 5)

\* C5: get_upcoming_birthdays returns a list of records on every book and date,
\* also when a record's birthday is 29 February and the year has no such day: that
\* record is left out or counted as 1 March, and every other record that is due
\* is in the list.
C5_UpcomingAlwaysReturns ==
    call[1] = "get_upcoming_birthdays" =>
        /\ res.kind = "return"
        /\ res.val[1] = "records"
        /\ \A i \in 1..Len(book) :
              (/\ ~(book[i].rec.birthday.m = 2 /\ book[i].rec.birthday.d = 29)
               /\ Due(book[i].rec, call[2], call[3]))
                  => \E j \in 1..Len(res.val[2]) : res.val[2][j] = book[i].rec

----------------------------------------------------------------------------
(* The claims about main() *)

\* The lines typed whose first word is close or exit.
ExitLines ==
    {kw_close, kw_exit,
     kw_exit \o <<" ">> \o kw_all}

\* C6: the process ends only on close or exit: whatever the line (empty, blanks
\* only, an unknown command, arguments missing or invalid), no exception leaves
\* the pass of the loop that reads it, and the loop goes on to the next line.
C6_OnlyExitEndsTheLoop ==
    /\ pc \in {"start", "save", "input", "done"}
    /\ pc = "done" => call[1] = "input" /\ call[2] \in ExitLines

\* The tuple the file holds for an entry of the book.
Stored(e) ==
    <<e.key, e.rec.name, e.rec.phones,
      IF e.rec.birthday = NoBirthday THEN <<>>
      ELSE <<e.rec.birthday.y, e.rec.birthday.m, e.rec.birthday.d>>>>

\* C7: while the process waits for a line, and when it has ended on close or
\* exit, the file holds the book that is in memory, entry for entry.
C7_StoreHoldsBook ==
    pc \in {"input", "done"} =>
        /\ store.exists
        /\ Len(store.data) = Len(book)
        /\ \A i \in 1..Len(book) : store.data[i] = Stored(book[i])

\* The process ended on exit with two contacts made in this run, a phone changed
\* and a birthday set, all of it in the file.
C7_Witness ==
    /\ pc = "done"
    /\ Len(book) = 2
    /\ \E i \in 1..2 : book[i].rec.phones = <<PhoneShort>>
    /\ \E i \in 1..2 : book[i].rec.birthday = Date(2020, 2, 29)
    /\ Len(store.data) = 2

====
